---- MODULE Spec2Model ----
(***************************************************************************)
(* A model of the Klio logger for Go (src/logger.go).                      *)
(*                                                                         *)
(* Byte strings are sequences of one-character strings; the byte 0x1B is   *)
(* the token ESC and an invalid UTF-8 byte is the token BAD.  Loggers and  *)
(* the backing arrays of []string slices live in two heaps (sequences      *)
(* indexed by address), so that sharing between a logger, the loggers      *)
(* derived from it and the slices its caller holds is explicit.  A sink    *)
(* (io.Writer) is modelled by the log of the Write calls it received.      *)
(***************************************************************************)
EXTENDS Integers, Sequences, FiniteSets, TLC

VARIABLES
    loggers,   \* heap of Logger structs, indexed by address (1, 2, ...)
    given,     \* history: given[l] is the tag list logger l was constructed with
    arrays,    \* heap of backing arrays of []string slices
    held,      \* addresses of the arrays the caller holds a slice of
    sinks,     \* sinks[s]: the Write calls sink s received, in order
    last       \* the last call made on the package: its name, arguments, results

vars == <<loggers, given, arrays, held, sinks, last>>

----------------------------------------------------------------------------
(* Bytes *)

ESC == "ESC"
BS == "\\"
QUOTE == "\""
NL == "\n"
CR == "\r"
BAD == "BAD"

RECURSIVE Concat(_)
\* The concatenation of a sequence of byte strings.
Concat(ss) == IF ss = <<>> THEN <<>> ELSE Head(ss) \o Concat(Tail(ss))

----------------------------------------------------------------------------
(* Levels *)

FatalLevel == <<"f", "a", "t", "a", "l">>
ErrorLevel == <<"e", "r", "r", "o", "r">>
WarnLevel == <<"w", "a", "r", "n">>
InfoLevel == <<"i", "n", "f", "o">>
VerboseLevel == <<"v", "e", "r", "b", "o", "s", "e">>
DebugLevel == <<"d", "e", "b", "u", "g">>
SpamLevel == <<"s", "p", "a", "m">>
DefaultLevel == InfoLevel

KnownLevels ==
    {FatalLevel, ErrorLevel, WarnLevel, InfoLevel, VerboseLevel, DebugLevel, SpamLevel}

\* levelsMap[s], ok: the map has exactly the seven level names as keys.
levelsMapHas(s) == s \in KnownLevels
levelsMapGet(s) == s

\* unicode.ToLower on the letters of the model's alphabet; U+0130 (the dotted
\* capital I) and U+212A (the Kelvin sign) are the non-ASCII letters whose lower
\* case is an ASCII letter.
ToLowerChar(c) ==
    CASE c = "A" -> "a" [] c = "B" -> "b" [] c = "D" -> "d" [] c = "E" -> "e"
      [] c = "F" -> "f" [] c = "G" -> "g" [] c = "I" -> "i" [] c = "L" -> "l"
      [] c = "M" -> "m" [] c = "N" -> "n" [] c = "O" -> "o" [] c = "P" -> "p"
      [] c = "R" -> "r" [] c = "S" -> "s" [] c = "T" -> "t" [] c = "U" -> "u"
      [] c = "V" -> "v" [] c = "W" -> "w" [] c = "U+0130" -> "i"
      [] c = "U+212A" -> "k"
      [] OTHER -> c

\* strings.ToLower
ToLower(s) == [i \in 1..Len(s) |-> ToLowerChar(s[i])]

\* ParseLevel looking its argument up as it is given.
ParseLevelExact(s) ==
    [level |-> IF levelsMapHas(s) THEN levelsMapGet(s) ELSE DefaultLevel,
     ok |-> levelsMapHas(s)]

\* ParseLevel(s) = (level, ok)
ParseLevel(s) ==
    LET k == ToLower(s)
        ok == levelsMapHas(k)
    IN  [level |-> IF ok THEN levelsMapGet(k) ELSE DefaultLevel, ok |-> ok]

----------------------------------------------------------------------------
(* encoding/json, as updateLinePrefix uses it *)

\* An encoder that escapes the quote and the backslash only.
JsonCharPlain(c) ==
    CASE c = QUOTE -> <<BS, QUOTE>>
      [] c = BS -> <<BS, BS>>
      [] OTHER -> <<c>>

\* The JSON text of one byte of a string (json.Marshal escapes HTML characters).
JsonChar(c) ==
    CASE c = QUOTE -> <<BS, QUOTE>>
      [] c = BS -> <<BS, BS>>
      [] c = NL -> <<BS, "n">>
      [] c = CR -> <<BS, "r">>
      [] c = "\t" -> <<BS, "t">>
      [] c = ESC -> <<BS, "u", "0", "0", "1", "b">>
      [] c = "<" -> <<BS, "u", "0", "0", "3", "c">>
      [] c = ">" -> <<BS, "u", "0", "0", "3", "e">>
      [] c = "&" -> <<BS, "u", "0", "0", "2", "6">>
      [] c = BAD -> <<BS, "u", "f", "f", "f", "d">>
      [] OTHER -> <<c>>

\* json.Marshal of a string (or of a Level, whose underlying type is string):
\* a result and an error, which is never set for a string.
JsonString(s) ==
    [out |-> <<QUOTE>> \o Concat([i \in 1..Len(s) |-> JsonChar(s[i])]) \o <<QUOTE>>,
     err |-> FALSE]

RECURSIVE JoinComma(_)
JoinComma(ss) ==
    IF ss = <<>> THEN <<>>
    ELSE IF Len(ss) = 1 THEN ss[1]
    ELSE ss[1] \o <<",">> \o JoinComma(Tail(ss))

NilSlice == 0    \* the nil []string
ZeroBase == 1    \* the address every zero-length non-nil slice points to

\* The elements of the slice at address ref.
Elems(arrs, ref) == IF ref = NilSlice THEN <<>> ELSE arrs[ref]

\* json.Marshal of a []string: null for the nil slice, an array otherwise.
JsonStringSlice(arrs, ref) ==
    IF ref = NilSlice
    THEN [out |-> <<"n", "u", "l", "l">>, err |-> FALSE]
    ELSE [out |-> <<"[">>
                  \o JoinComma([i \in 1..Len(arrs[ref]) |-> JsonString(arrs[ref][i]).out])
                  \o <<"]">>,
          err |-> FALSE]

----------------------------------------------------------------------------
(* The line prefix and the record *)

LevelIntro ==
    <<ESC, "_", "k", "l", "i", "o", "_", "l", "o", "g", "_", "l", "e", "v", "e", "l", " ">>
TagsIntro == <<ESC, "_", "k", "l", "i", "o", "_", "t", "a", "g", "s", " ">>
Terminator == <<ESC, BS>>
ResetSuffix == <<ESC, "_", "k", "l", "i", "o", "_", "r", "e", "s", "e", "t", ESC, BS, NL>>

\* fmt.Sprintf("\033_klio_log_level %s\033\\\033_klio_tags %s\033\\", level, tags)
FormatPrefix(level, tags) ==
    LevelIntro \o level \o Terminator \o TagsIntro \o tags \o Terminator

\* updateLinePrefix on the struct lg, with the heap of arrays as it is.
updateLinePrefix(arrs, lg) ==
    LET lv == JsonString(lg.level)
        level == IF lv.err THEN <<QUOTE>> \o DefaultLevel \o <<QUOTE>> ELSE lv.out
        tg == JsonStringSlice(arrs, lg.tags)
        tags == IF tg.err \/ tg.out = <<"n", "u", "l", "l">> THEN <<"[", "]">> ELSE tg.out
    IN  [lg EXCEPT !.linePrefix = FormatPrefix(level, tags)]

----------------------------------------------------------------------------
(* Sinks *)

Stdout == "os.Stdout"
Stderr == "os.Stderr"
Buffer == "bytes.Buffer"
SinkIds == {Stdout, Stderr, Buffer}

\* How a sink may answer a Write: a bytes.Buffer takes everything; a file may
\* also fail having taken nothing ("fail"), or part of the data ("short").
AnswerKinds(s) == IF s = Buffer THEN {"ok"} ELSE {"ok", "fail", "short"}

\* The (n, err) a sink answers to Write(data).
Answer(kind, data) ==
    CASE kind = "ok" -> [n |-> Len(data), err |-> FALSE]
      [] kind = "fail" -> [n |-> 0, err |-> TRUE]
      [] kind = "short" -> [n |-> Len(data) \div 2, err |-> TRUE]

\* A sink that puts what it is given before what it holds.
SinkWriteFirst(sk, s, data, kind) ==
    LET ans == Answer(kind, data)
    IN  [sk EXCEPT ![s] = <<[data |-> data, n |-> ans.n, err |-> ans.err]>> \o @]

\* The sinks after sink s answered Write(data) in the given way.
SinkWrite(sk, s, data, kind) ==
    LET ans == Answer(kind, data)
    IN  [sk EXCEPT ![s] = Append(@, [data |-> data, n |-> ans.n, err |-> ans.err])]

\* The bytes a sink holds: of each Write, the bytes it took.
Content(log) == Concat([i \in 1..Len(log) |-> SubSeq(log[i].data, 1, log[i].n)])

\* Number of Write calls made on all sinks.
Writes(sk) == Len(sk[Stdout]) + Len(sk[Stderr]) + Len(sk[Buffer])

----------------------------------------------------------------------------
(* Logger *)

standardLogger == 1    \* the address the package variable standardLogger holds
errorLogger == 2       \* the address the package variable errorLogger holds

\* New(output): the struct New builds.
New(arrs, output) ==
    updateLinePrefix(arrs, [output |-> output, tags |-> ZeroBase,
                            level |-> DefaultLevel, linePrefix |-> <<>>])

\* l.Level()
Level(ls, l) == ls[l].level

\* l.Output()
Output(ls, l) == ls[l].output

\* l.Tags(): the heap of arrays after the call and the slice returned.  make
\* allocates a new array unless the length is zero.
Tags(ls, arrs, l) ==
    LET src == Elems(arrs, ls[l].tags)
    IN  IF Len(src) = 0
        THEN [arrays |-> arrs, ref |-> ZeroBase]
        ELSE [arrays |-> Append(arrs, src), ref |-> Len(arrs) + 1]

\* SetOutput redirecting every logger that writes to the sink l writes to.
SetOutputShared(ls, l, output) ==
    [m \in 1..Len(ls) |->
        IF ls[m].output = ls[l].output THEN [ls[m] EXCEPT !.output = output] ELSE ls[m]]

\* l.SetOutput(output): the heap of loggers after the call.
SetOutput(ls, l, output) == [ls EXCEPT ![l].output = output]

\* WithLevel writing through its receiver (n := l instead of n := *l).
WithLevelInPlace(ls, arrs, l, level) ==
    LET n == updateLinePrefix(arrs, [ls[l] EXCEPT !.level = level])
    IN  Append([ls EXCEPT ![l] = n], n)

\* l.WithLevel(level): the heap of loggers after the call; the logger returned
\* is the last one of it.
WithLevel(ls, arrs, l, level) ==
    LET n == [ls[l] EXCEPT !.level = level]
    IN  Append(ls, updateLinePrefix(arrs, n))

\* l.WithTags(tags...), tags being the slice at address ref: the heap of loggers
\* after the call; the logger returned is the last one of it.
WithTags(ls, arrs, l, ref) ==
    LET n == [ls[l] EXCEPT !.tags = ref]
    IN  Append(ls, updateLinePrefix(arrs, n))

\* fmt.Sprint of string operands: no space is added between strings.
Sprint(v) == Concat(v)

RECURSIVE Sprintf(_, _)
\* fmt.Sprintf for formats made of literal bytes, %s and %%, given as many
\* string operands as the format has %s verbs.
Sprintf(format, v) ==
    IF format = <<>> THEN <<>>
    ELSE IF Head(format) = "%" /\ Len(format) >= 2 /\ format[2] = "s"
    THEN Head(v) \o Sprintf(SubSeq(format, 3, Len(format)), Tail(v))
    ELSE IF Head(format) = "%" /\ Len(format) >= 2 /\ format[2] = "%"
    THEN <<"%">> \o Sprintf(SubSeq(format, 3, Len(format)), v)
    ELSE <<Head(format)>> \o Sprintf(Tail(format), v)

\* Print escaping its message the way the level and the tags are escaped.
PrintLineEscaped(lg, v) ==
    lg.linePrefix \o Concat([i \in 1..Len(Sprint(v)) |-> JsonChar(Sprint(v)[i])]) \o ResetSuffix

\* The line Print assembles for the struct lg and the operands v.
PrintLine(lg, v) == lg.linePrefix \o Sprint(v) \o ResetSuffix

\* A Print that writes nothing more once a Write of its sink has failed.
LoggerPrintDisabled(sk, lg, v, kind) ==
    IF sk[lg.output] # <<>> /\ sk[lg.output][Len(sk[lg.output])].err
    THEN sk
    ELSE SinkWrite(sk, lg.output, PrintLine(lg, v), kind)

\* The sinks after lg.Print(v...), the sink answering in the given way; Print
\* drops the answer and returns its receiver.
LoggerPrint(sk, lg, v, kind) == SinkWrite(sk, lg.output, PrintLine(lg, v), kind)

\* The sinks after lg.Printf(format, v...).
LoggerPrintf(sk, lg, format, v, kind) ==
    LoggerPrint(sk, lg, <<Sprintf(format, v)>>, kind)

----------------------------------------------------------------------------
(* bufio.Scanner over bytes.NewReader(p), splitting with bufio.ScanLines *)

MaxScanTokenSize == 3    \* bufio.MaxScanTokenSize (64 * 1024), scaled down

Min(a, b) == IF a <= b THEN a ELSE b

\* bytes.IndexByte(data, '\n'), counted from 1; 0 when there is none.
IndexNL(data) ==
    IF \E i \in 1..Len(data) : data[i] = NL
    THEN CHOOSE i \in 1..Len(data) : data[i] = NL /\ \A j \in 1..(i - 1) : data[j] # NL
    ELSE 0

\* dropCR
dropCR(data) ==
    IF Len(data) > 0 /\ data[Len(data)] = CR THEN SubSeq(data, 1, Len(data) - 1) ELSE data

\* A split function that returns newline-terminated lines only.
ScanLinesTerminated(data, atEOF) ==
    LET i == IndexNL(data)
    IN  IF i > 0
        THEN [advance |-> i, has |-> TRUE, token |-> dropCR(SubSeq(data, 1, i - 1))]
        ELSE [advance |-> 0, has |-> FALSE, token |-> <<>>]

\* bufio.ScanLines(data, atEOF): has tells whether a token is returned.
ScanLines(data, atEOF) ==
    LET i == IndexNL(data)
    IN  IF atEOF /\ Len(data) = 0 THEN [advance |-> 0, has |-> FALSE, token |-> <<>>]
        ELSE IF i > 0
        THEN [advance |-> i, has |-> TRUE, token |-> dropCR(SubSeq(data, 1, i - 1))]
        ELSE IF atEOF THEN [advance |-> Len(data), has |-> TRUE, token |-> dropCR(data)]
        ELSE [advance |-> 0, has |-> FALSE, token |-> <<>>]

RECURSIVE Scan(_)
\* The tokens the calls of scanner.Scan() yield on the unread input rest, and
\* whether scanning ends with an error (scanner.Err() # nil).  The buffer grows to
\* MaxScanTokenSize bytes at most; the reader's EOF is seen only by a read into a
\* buffer that has room, so a buffer full of bytes with no newline among them is
\* bufio.ErrTooLong.
Scan(rest) ==
    LET buf == SubSeq(rest, 1, Min(Len(rest), MaxScanTokenSize))
        atEOF == Len(rest) < MaxScanTokenSize
        r == ScanLines(buf, atEOF)
    IN  IF r.has
        THEN LET more == Scan(SubSeq(rest, r.advance + 1, Len(rest)))
             IN  [tokens |-> <<r.token>> \o more.tokens, err |-> more.err]
        ELSE [tokens |-> <<>>, err |-> ~atEOF]

\* Write returning len(p), nil whatever the scanner met.
WriteReturnAll(p, sc) == [n |-> Len(p), err |-> FALSE]

\* What Write(p) returns once the scanner sc is through.
WriteReturn(p, sc) ==
    IF sc.err THEN [n |-> 0, err |-> TRUE] ELSE [n |-> Len(p), err |-> FALSE]

RECURSIVE PrintEach(_, _, _, _)
\* The loop of Write: l.Print(scanner.Text()) for each token, in order.
PrintEach(sk, lg, tokens, kinds) ==
    IF tokens = <<>> THEN sk
    ELSE PrintEach(LoggerPrint(sk, lg, <<Head(tokens)>>, Head(kinds)), lg,
                   Tail(tokens), Tail(kinds))

\* A Write that takes its first line for the rest of the last record its sink
\* received, and replaces that record by the record of the two joined.
LoggerWriteCarrying(sk, lg, p, kinds) ==
    LET sc == Scan(p)
        r == WriteReturn(p, sc)
        log == sk[lg.output]
        data == log[Len(log)].data
        carried == SubSeq(data, Len(lg.linePrefix) + 1, Len(data) - Len(ResetSuffix))
    IN  IF log = <<>> \/ sc.tokens = <<>>
        THEN [sinks |-> PrintEach(sk, lg, sc.tokens, kinds), n |-> r.n, err |-> r.err]
        ELSE [sinks |-> PrintEach([sk EXCEPT ![lg.output] = SubSeq(log, 1, Len(log) - 1)], lg,
                                  <<carried \o Head(sc.tokens)>> \o Tail(sc.tokens), kinds),
              n |-> r.n, err |-> r.err]

\* lg.Write(p): the sinks after the call and what it returns.
LoggerWrite(sk, lg, p, kinds) ==
    LET sc == Scan(p)
        r == WriteReturn(p, sc)
    IN  [sinks |-> PrintEach(sk, lg, sc.tokens, kinds), n |-> r.n, err |-> r.err]

----------------------------------------------------------------------------
(* Bounds and inputs *)

MaxLoggers == 4    \* loggers on the heap, the two package loggers included
MaxArrays == 3     \* backing arrays on the heap, the zero-length one included
MaxWrites == 1     \* Write calls received by all sinks together

\* There is room on the heaps for one more logger, for one more array.
LoggerRoom == Len(loggers) < MaxLoggers
ArrayRoom == Len(arrays) < MaxArrays
\* The sinks may receive k more Writes.
WriteRoom(k) == Writes(sinks) + k <= MaxWrites

Foo == <<"f", "o", "o">>
Special == <<ESC, BS, QUOTE, NL>>

LevelInputs == {SpamLevel, <<QUOTE, ESC>>}
TagLists == {<<>>, <<<<"a">>, <<"b">>>>, <<<<ESC, BS>>>>}
TagInputs == {<<"z">>}
PrintInputs == {<<<<>>>>, <<Foo>>, <<Special>>, <<<<"a">>, <<"b">>>>}
FormatInputs == {<<"%", "s">>, <<"a", "%", "%", "%", "s">>}

Last(seq) == seq[Len(seq)]

----------------------------------------------------------------------------
(* The package after initialisation, and the calls a program makes *)

Init ==
    LET arrs == <<<<>>>>
    IN  /\ arrays = arrs
        /\ loggers = <<New(arrs, Stdout),
                       Last(WithLevel(<<New(arrs, Stderr)>>, arrs, 1, ErrorLevel))>>
        /\ given = <<<<>>, <<>>>>
        /\ held = {}
        /\ sinks = [s \in SinkIds |-> <<>>]
        /\ last = [op |-> "init"]

Addrs == 1..Len(loggers)

NewCall(output) ==
    /\ loggers' = Append(loggers, New(arrays, output))
    /\ given' = Append(given, <<>>)
    /\ last' = [op |-> "New", arg |-> output, ret |-> Len(loggers) + 1]
    /\ UNCHANGED <<arrays, held, sinks>>

StandardLoggerCall ==
    /\ last' = [op |-> "StandardLogger", ret |-> standardLogger]
    /\ UNCHANGED <<loggers, given, arrays, held, sinks>>

ErrorLoggerCall ==
    /\ last' = [op |-> "ErrorLogger", ret |-> errorLogger]
    /\ UNCHANGED <<loggers, given, arrays, held, sinks>>

TagsCall(l) ==
    LET r == Tags(loggers, arrays, l)
    IN  /\ arrays' = r.arrays
        /\ held' = held \cup {r.ref}
        /\ last' = [op |-> "Tags", rcv |-> l, ret |-> r.ref]
        /\ UNCHANGED <<loggers, given, sinks>>

\* The caller builds a slice of its own: s := []string{t1, ..., tn}.
SliceLiteral(tags) ==
    /\ arrays' = Append(arrays, tags)
    /\ held' = held \cup {Len(arrays) + 1}
    /\ last' = [op |-> "[]string{...}", arg |-> tags, ret |-> Len(arrays) + 1]
    /\ UNCHANGED <<loggers, given, sinks>>

\* The caller assigns x to element i of a slice it holds: s[i] = x.
CallerWrite(a, i, x) ==
    /\ a \in held
    /\ i \in 1..Len(arrays[a])
    /\ arrays' = [arrays EXCEPT ![a][i] = x]
    /\ last' = [op |-> "s[i] = x", arg |-> <<a, i, x>>]
    /\ UNCHANGED <<loggers, given, held, sinks>>

SetOutputCall(l, output) ==
    /\ loggers' = SetOutput(loggers, l, output)
    /\ last' = [op |-> "SetOutput", rcv |-> l, arg |-> output]
    /\ UNCHANGED <<given, arrays, held, sinks>>

WithLevelCall(l, level) ==
    /\ loggers' = WithLevel(loggers, arrays, l, level)
    /\ given' = Append(given, given[l])
    /\ last' = [op |-> "WithLevel", rcv |-> l, arg |-> level, ret |-> Len(loggers) + 1]
    /\ UNCHANGED <<arrays, held, sinks>>

\* l.WithTags(t1, ..., tn): the call builds the slice of its operands, nil when
\* there are none.
WithTagsCall(l, tags) ==
    LET arrs == IF tags = <<>> THEN arrays ELSE Append(arrays, tags)
        ref == IF tags = <<>> THEN NilSlice ELSE Len(arrs)
    IN  /\ arrays' = arrs
        /\ loggers' = WithTags(loggers, arrs, l, ref)
        /\ given' = Append(given, tags)
        /\ last' = [op |-> "WithTags", rcv |-> l, arg |-> tags, ret |-> Len(loggers) + 1]
        /\ UNCHANGED <<held, sinks>>

\* l.WithTags(s...) for a slice s the caller holds: the slice itself is passed.
WithTagsSlice(l, a) ==
    /\ a \in held
    /\ loggers' = WithTags(loggers, arrays, l, a)
    /\ given' = Append(given, arrays[a])
    /\ last' = [op |-> "WithTags", rcv |-> l, arg |-> arrays[a], ret |-> Len(loggers) + 1]
    /\ UNCHANGED <<arrays, held, sinks>>

PrintCall(l, v) ==
    /\ \E kind \in AnswerKinds(loggers[l].output) :
          /\ sinks' = LoggerPrint(sinks, loggers[l], v, kind)
          /\ last' = [op |-> "Print", rcv |-> l, arg |-> v, ret |-> l, kinds |-> <<kind>>]
    /\ UNCHANGED <<loggers, given, arrays, held>>

PrintfCall(l, format, v) ==
    /\ \E kind \in AnswerKinds(loggers[l].output) :
          /\ sinks' = LoggerPrintf(sinks, loggers[l], format, v, kind)
          /\ last' = [op |-> "Printf", rcv |-> l, arg |-> <<format, v>>, ret |-> l,
                      kinds |-> <<kind>>]
    /\ UNCHANGED <<loggers, given, arrays, held>>

\* A Write that prints nothing when its scanner ends with an error.
WriteCallAtomic(l, p) ==
    LET k == Len(Scan(p).tokens)
    IN  /\ \E kinds \in [1..k -> AnswerKinds(loggers[l].output)] :
              LET r == LoggerWrite(sinks, loggers[l], p, kinds)
              IN  /\ sinks' = IF r.err THEN sinks ELSE r.sinks
                  /\ last' = [op |-> "Write", rcv |-> l, arg |-> p, n |-> r.n,
                              err |-> r.err, kinds |-> kinds]
        /\ UNCHANGED <<loggers, given, arrays, held>>

WriteCall(l, p) ==
    LET k == Len(Scan(p).tokens)
    IN  /\ \E kinds \in [1..k -> AnswerKinds(loggers[l].output)] :
              LET r == LoggerWrite(sinks, loggers[l], p, kinds)
              IN  /\ sinks' = r.sinks
                  /\ last' = [op |-> "Write", rcv |-> l, arg |-> p, n |-> r.n,
                              err |-> r.err, kinds |-> kinds]
        /\ UNCHANGED <<loggers, given, arrays, held>>

\* standardLogger.WithLevel(level).Print(v...): the logger WithLevel returns is
\* used for this one Print and is garbage afterwards.
StandardPrint(name, level, v) ==
    LET h == WithLevel(loggers, arrays, standardLogger, level)
    IN  /\ \E kind \in AnswerKinds(Last(h).output) :
              /\ sinks' = LoggerPrint(sinks, Last(h), v, kind)
              /\ last' = [op |-> name, arg |-> v, level |-> level, kinds |-> <<kind>>]
        /\ loggers' = SubSeq(h, 1, Len(loggers))
        /\ UNCHANGED <<given, arrays, held>>

\* standardLogger.WithLevel(level).Printf(format, v...)
StandardPrintf(name, level, format, v) ==
    LET h == WithLevel(loggers, arrays, standardLogger, level)
    IN  /\ \E kind \in AnswerKinds(Last(h).output) :
              /\ sinks' = LoggerPrintf(sinks, Last(h), format, v, kind)
              /\ last' = [op |-> name, arg |-> <<format, v>>, level |-> level,
                          kinds |-> <<kind>>]
        /\ loggers' = SubSeq(h, 1, Len(loggers))
        /\ UNCHANGED <<given, arrays, held>>

Spam(v) == StandardPrint("Spam", SpamLevel, v)

Debug(v) == StandardPrint("Debug", DebugLevel, v)

Verbose(v) == StandardPrint("Verbose", VerboseLevel, v)

Info(v) == StandardPrint("Info", InfoLevel, v)

Warn(v) == StandardPrint("Warn", WarnLevel, v)

Error(v) == StandardPrint("Error", ErrorLevel, v)

Fatal(v) == StandardPrint("Fatal", FatalLevel, v)

Spamf(format, v) == StandardPrintf("Spamf", SpamLevel, format, v)

Debugf(format, v) == StandardPrintf("Debugf", DebugLevel, format, v)

Verbosef(format, v) == StandardPrintf("Verbosef", VerboseLevel, format, v)

Infof(format, v) == StandardPrintf("Infof", InfoLevel, format, v)

Warnf(format, v) == StandardPrintf("Warnf", WarnLevel, format, v)

Errorf(format, v) == StandardPrintf("Errorf", ErrorLevel, format, v)

Fatalf(format, v) == StandardPrintf("Fatalf", FatalLevel, format, v)

----------------------------------------------------------------------------
(* Spec: a program that builds loggers and reads and writes their tags *)

Next ==
    \/ LoggerRoom /\ \E s \in SinkIds : NewCall(s)
    \/ LoggerRoom /\ \E l \in Addrs, level \in LevelInputs : WithLevelCall(l, level)
    \/ LoggerRoom /\ \E l \in Addrs, tags \in TagLists :
          (tags = <<>> \/ ArrayRoom) /\ WithTagsCall(l, tags)
    \/ LoggerRoom /\ \E l \in Addrs, a \in held : WithTagsSlice(l, a)
    \/ \E l \in Addrs : (Elems(arrays, loggers[l].tags) = <<>> \/ ArrayRoom) /\ TagsCall(l)
    \/ \E a \in held : \E i \in 1..Len(arrays[a]), x \in TagInputs : CallerWrite(a, i, x)

Spec == Init /\ [][Next]_vars

----------------------------------------------------------------------------
(* SpecParse: a program that parses level names *)

\* The upper-case letter of a lower-case letter of the level names.
UpperChar(c) ==
    CASE c = "a" -> "A" [] c = "b" -> "B" [] c = "d" -> "D" [] c = "e" -> "E"
      [] c = "f" -> "F" [] c = "g" -> "G" [] c = "i" -> "I" [] c = "l" -> "L"
      [] c = "m" -> "M" [] c = "n" -> "N" [] c = "o" -> "O" [] c = "p" -> "P"
      [] c = "r" -> "R" [] c = "s" -> "S" [] c = "t" -> "T" [] c = "u" -> "U"
      [] c = "v" -> "V" [] c = "w" -> "W"
      [] OTHER -> c

RECURSIVE CaseVariants(_)
\* The strings that are name up to the case of each letter.
CaseVariants(name) ==
    IF name = <<>> THEN {<<>>}
    ELSE {<<c>> \o r : c \in {Head(name), UpperChar(Head(name))},
                       r \in CaseVariants(Tail(name))}

Unknown == <<"u", "n", "k", "n", "o", "w", "n">>

ParseInputs ==
    UNION {CaseVariants(name) : name \in KnownLevels}
      \cup {<<" ", " ">> \o name : name \in KnownLevels}
      \cup {name \o <<" ">> : name \in KnownLevels}
      \cup {name \o <<NL>> : name \in KnownLevels}
      \cup {SubSeq(name, 1, Len(name) - 1) : name \in KnownLevels}
      \cup {name \o name : name \in KnownLevels}
      \cup {<<>>, Unknown, <<"U+0130", "n", "f", "o">>, <<"U+212A">>,
            <<"i", "n", "f", "0">>, <<" ", "S", "p", "A", "m">>}

ParseLevelCall(s) ==
    LET r == ParseLevel(s)
    IN  /\ last' = [op |-> "ParseLevel", arg |-> s, level |-> r.level, ok |-> r.ok]
        /\ UNCHANGED <<loggers, given, arrays, held, sinks>>

NextParse == \E s \in ParseInputs : ParseLevelCall(s)

SpecParse == Init /\ [][NextParse]_vars

----------------------------------------------------------------------------
(* SpecPrint: a program that builds New(s).WithTags(tags...).WithLevel(level)  *)
(* and prints on the loggers it has                                         *)

\* The heaps after l3 := New(s); l4 := l3.WithTags(tags...); l5 := l4.WithLevel(level).
Chain(s, tags, level) ==
    LET arrs == IF tags = <<>> THEN <<<<>>>> ELSE <<<<>>, tags>>
        ref == IF tags = <<>> THEN NilSlice ELSE Len(arrs)
        l2 == <<New(arrs, Stdout), Last(WithLevel(<<New(arrs, Stderr)>>, arrs, 1, ErrorLevel))>>
        l3 == Append(l2, New(arrs, s))
        l4 == WithTags(l3, arrs, 3, ref)
    IN  [loggers |-> WithLevel(l4, arrs, 4, level),
         arrays |-> arrs,
         given |-> <<<<>>, <<>>, <<>>, tags, tags>>]

InitPrint ==
    \E s \in SinkIds, tags \in TagLists, level \in LevelInputs \cup {<<>>} :
        LET c == Chain(s, tags, level)
        IN  /\ loggers = c.loggers
            /\ arrays = c.arrays
            /\ given = c.given
            /\ held = {}
            /\ sinks = [x \in SinkIds |-> <<>>]
            /\ last = [op |-> "init"]

NextPrint ==
    \/ WriteRoom(1) /\ \E l \in Addrs, v \in PrintInputs : PrintCall(l, v)
    \/ WriteRoom(1) /\ \E l \in Addrs, format \in FormatInputs : PrintfCall(l, format, <<Foo>>)

SpecPrint == InitPrint /\ [][NextPrint]_vars

----------------------------------------------------------------------------
(* SpecPackage: a program that uses the package-level loggers and functions *)

NextPackage ==
    \/ StandardLoggerCall
    \/ ErrorLoggerCall
    \/ \E l \in {standardLogger, errorLogger}, s \in SinkIds : SetOutputCall(l, s)
    \/ WriteRoom(1) /\ Spam(<<Foo>>)
    \/ WriteRoom(1) /\ Debug(<<Foo>>)
    \/ WriteRoom(1) /\ Verbose(<<Foo>>)
    \/ WriteRoom(1) /\ Info(<<Foo>>)
    \/ WriteRoom(1) /\ Warn(<<Foo>>)
    \/ WriteRoom(1) /\ Error(<<Foo>>)
    \/ WriteRoom(1) /\ Fatal(<<Foo>>)
    \/ WriteRoom(1) /\ Spamf(<<"%", "s">>, <<Foo>>)
    \/ WriteRoom(1) /\ Debugf(<<"%", "s">>, <<Foo>>)
    \/ WriteRoom(1) /\ Verbosef(<<"%", "s">>, <<Foo>>)
    \/ WriteRoom(1) /\ Infof(<<"%", "s">>, <<Foo>>)
    \/ WriteRoom(1) /\ Warnf(<<"%", "s">>, <<Foo>>)
    \/ WriteRoom(1) /\ Errorf(<<"%", "s">>, <<Foo>>)
    \/ WriteRoom(1) /\ Fatalf(<<"%", "s">>, <<Foo>>)

SpecPackage == Init /\ [][NextPackage]_vars

\* Redirection: loggers are created and derived, redirected with SetOutput, and
\* written to through Print, Printf and Write.
OutputLoggers == 3

NextOutput ==
    \/ Len(loggers) < OutputLoggers /\ NewCall(Buffer)
    \/ Len(loggers) < OutputLoggers /\ \E l \in Addrs : WithLevelCall(l, SpamLevel)
    \/ Len(loggers) < OutputLoggers /\ ArrayRoom
          /\ \E l \in Addrs : WithTagsCall(l, <<<<"a">>>>)
    \/ \E l \in Addrs, s \in SinkIds : SetOutputCall(l, s)
    \/ WriteRoom(1) /\ \E l \in Addrs : PrintCall(l, <<Foo>>)
    \/ WriteRoom(1) /\ \E l \in Addrs : PrintfCall(l, <<"%", "s">>, <<Foo>>)
    \/ WriteRoom(1) /\ \E l \in Addrs : WriteCall(l, <<"a">>)

SpecOutput == Init /\ [][NextOutput]_vars

\* The line writer, one call at a time: buffers of every shape are written to
\* loggers on a buffer.  (The sinks that fail are written to under SpecOutput.)
WriteLen == 4       \* bytes in a buffer given to Write

WriteBuffers == UNION {[1..k -> {"a", CR, NL}] : k \in 0..WriteLen}

NextWrite ==
    \/ Len(loggers) < OutputLoggers /\ NewCall(Buffer)
    \/ \E l \in Addrs, p \in WriteBuffers :
          /\ Output(loggers, l) = Buffer
          /\ Writes(sinks) < MaxWrites
          /\ WriteCall(l, p)

SpecWrite == Init /\ [][NextWrite]_vars

\* The line writer fed a stream: short buffers are written one after the other
\* to a logger on a buffer.
StreamLen == 2      \* bytes in a buffer of the stream
MaxRecords == 4     \* Write calls received by all sinks together, here

StreamBuffers == UNION {[1..k -> {"a", NL}] : k \in 0..StreamLen}

NextStream ==
    \/ Len(loggers) < OutputLoggers /\ NewCall(Buffer)
    \/ \E l \in Addrs, p \in StreamBuffers :
          /\ Output(loggers, l) = Buffer
          /\ Writes(sinks) + Len(Scan(p).tokens) <= MaxRecords
          /\ WriteCall(l, p)

SpecStream == Init /\ [][NextStream]_vars

\* Printing to sinks that fail: the package loggers, on standard output and
\* standard error, print one message after the other.
MaxAttempts == 2    \* Write calls received by all sinks together, here

NextFailing ==
    \/ Writes(sinks) < MaxAttempts
          /\ \E l \in Addrs, v \in {<<Foo>>, <<Special>>} : PrintCall(l, v)
    \/ Writes(sinks) < MaxAttempts
          /\ \E l \in Addrs, format \in FormatInputs : PrintfCall(l, format, <<Foo>>)

SpecFailing == Init /\ [][NextFailing]_vars

\* Slices of the caller: the caller builds slices, spreads them into WithTags,
\* writes to them, and derives loggers with WithLevel.
NextAlias ==
    \/ ArrayRoom /\ \E tags \in TagLists \ {<<>>} : SliceLiteral(tags)
    \/ LoggerRoom /\ \E l \in Addrs, a \in held : WithTagsSlice(l, a)
    \/ LoggerRoom /\ \E l \in Addrs, level \in LevelInputs : WithLevelCall(l, level)
    \/ \E a \in held : \E i \in 1..Len(arrays[a]), x \in TagInputs : CallerWrite(a, i, x)

SpecAlias == Init /\ [][NextAlias]_vars

\* One logger on a buffer, printed to and written to in turn; some of the
\* buffers written hold a line that is too long for the scanner.
LongLine == [i \in 1..MaxScanTokenSize |-> "a"]

OrderBuffers ==
    {<<>>, <<"a">>, <<"a", NL, "b">>, LongLine, LongLine \o <<NL, "b">>,
     <<"b", NL>> \o LongLine \o <<NL, "b">>, <<"a", CR, NL, "b", NL>> \o LongLine}

NextOrder ==
    \/ Len(loggers) < OutputLoggers /\ NewCall(Buffer)
    \/ \E l \in Addrs, v \in {<<Foo>>, <<<<"a">>, <<"b">>>>} :
          /\ Output(loggers, l) = Buffer
          /\ Writes(sinks) < MaxRecords
          /\ PrintCall(l, v)
    \/ \E l \in Addrs, p \in OrderBuffers :
          /\ Output(loggers, l) = Buffer
          /\ Writes(sinks) + Len(Scan(p).tokens) <= MaxRecords
          /\ WriteCall(l, p)

SpecOrder == Init /\ [][NextOrder]_vars

\* The encoder: loggers are built with New(&b).WithTags(tags...).WithLevel(level)
\* for every level and every tag over ESC, the quote, the backslash and a
\* letter, and print.
EncLen == 2     \* bytes in a level or in a tag

EncStrings == UNION {[1..k -> {ESC, QUOTE, BS, "a"}] : k \in 0..EncLen}
EncTagLists == {<<>>, <<<<ESC>>, <<BS>>>>} \cup {<<tag>> : tag \in EncStrings}

InitEncode ==
    \E tags \in EncTagLists, level \in EncStrings :
        LET c == Chain(Buffer, tags, level)
        IN  /\ loggers = c.loggers
            /\ arrays = c.arrays
            /\ given = c.given
            /\ held = {}
            /\ sinks = [x \in SinkIds |-> <<>>]
            /\ last = [op |-> "init"]

NextEncode == WriteRoom(1) /\ PrintCall(Len(loggers), <<Foo>>)

SpecEncode == InitEncode /\ [][NextEncode]_vars

----------------------------------------------------------------------------
(* What a caller observes of the logger at address l *)

Observed(ls, arrs, l) ==
    [level |-> Level(ls, l),
     tags |-> Elems(arrs, ls[l].tags),
     line |-> PrintLine(ls[l], <<Foo>>)]

\* C2: a call of WithLevel or WithTags leaves the level, the tags and the
\* line prefix of every logger that existed before the call as they were, the
\* receiver's included.
C2_ReceiverUnchanged ==
    [][last'.op \in {"WithLevel", "WithTags"} =>
          \A l \in Addrs : Observed(loggers', arrays', l) = Observed(loggers, arrays, l)]_vars

\* A logger derived from a derived logger, differing from its receiver.
C2_Witness ==
    /\ last.op \in {"WithLevel", "WithTags"}
    /\ last.rcv > errorLogger
    /\ Observed(loggers, arrays, last.ret) # Observed(loggers, arrays, last.rcv)

\* C3: the caller writing to an element of a slice that Tags() returned changes
\* neither what Tags() returns for any logger nor the line any logger prints.
C3_TagsIsACopy ==
    [][last'.op = "s[i] = x" =>
          \A l \in Addrs : Observed(loggers', arrays', l) = Observed(loggers, arrays, l)]_vars

\* The pairs (c, d): the letter c, lower-cased, is the ASCII letter d.
LowersTo ==
    {<<"A", "a">>, <<"B", "b">>, <<"D", "d">>, <<"E", "e">>, <<"F", "f">>, <<"G", "g">>,
     <<"I", "i">>, <<"L", "l">>, <<"M", "m">>, <<"N", "n">>, <<"O", "o">>, <<"P", "p">>,
     <<"R", "r">>, <<"S", "s">>, <<"T", "t">>, <<"U", "u">>, <<"V", "v">>, <<"W", "w">>,
     <<"U+0130", "i">>, <<"U+212A", "k">>}

\* s, its letters lower-cased, is exactly name (name being in lower case).
IsNameOf(s, name) ==
    /\ Len(s) = Len(name)
    /\ \A i \in 1..Len(s) : s[i] = name[i] \/ <<s[i], name[i]>> \in LowersTo

\* C4: ParseLevel(s) is (L, true) when s, lower-cased, is the name of the known
\* level L, and (info, false) for every other s; nothing is trimmed.
C4_ParseLevel ==
    last.op = "ParseLevel" =>
        LET hits == {name \in KnownLevels : IsNameOf(last.arg, name)}
        IN  IF hits # {}
            THEN last.ok /\ hits = {last.level}
            ELSE ~last.ok /\ last.level = InfoLevel

\* A name in mixed case is matched.
C4_Witness ==
    /\ last.op = "ParseLevel"
    /\ last.ok
    /\ last.arg # last.level
    /\ last.level = VerboseLevel

\* The record of a message m at a level and with a tag list, as the output
\* protocol spells it.
Record(level, tags, m) ==
    <<ESC, "_", "k", "l", "i", "o", "_", "l", "o", "g", "_", "l", "e", "v", "e", "l", " ">>
      \o JsonString(level).out \o <<ESC, BS>>
      \o <<ESC, "_", "k", "l", "i", "o", "_", "t", "a", "g", "s", " ">>
      \o <<"[">> \o JoinComma([i \in 1..Len(tags) |-> JsonString(tags[i]).out]) \o <<"]">>
      \o <<ESC, BS>>
      \o m
      \o <<ESC, "_", "k", "l", "i", "o", "_", "r", "e", "s", "e", "t", ESC, BS, NL>>

\* C1: Print(m) hands its sink, in one Write, exactly the record of m at the
\* logger's level and with the tag list the logger was built with, m being
\* there byte for byte; a sink that takes all it is given holds that record.
C1_PrintVerbatim ==
    (last.op = "Print" /\ Len(last.arg) = 1) =>
        LET lg == loggers[last.rcv]
            w == Last(sinks[lg.output])
            rec == Record(lg.level, given[last.rcv], last.arg[1])
        IN  /\ w.data = rec
            /\ last.kinds = <<"ok">> =>
                  SubSeq(Content(sinks[lg.output]),
                         Len(Content(sinks[lg.output])) - Len(rec) + 1,
                         Len(Content(sinks[lg.output]))) = rec

\* A message of ESC, backslash, quote and newline printed by a logger whose
\* level and tags need escaping.
C1_Witness ==
    /\ last.op = "Print"
    /\ last.arg = <<Special>>
    /\ loggers[last.rcv].level = <<QUOTE, ESC>>
    /\ given[last.rcv] = <<<<ESC, BS>>>>
    /\ last.kinds = <<"ok">>

\* Between the sinks before and after, sink s received one more Write, of
\* data, and no other sink received any.
OneMoreWrite(before, after, s, data) ==
    /\ \A x \in SinkIds \ {s} : after[x] = before[x]
    /\ Len(after[s]) = Len(before[s]) + 1
    /\ SubSeq(after[s], 1, Len(before[s])) = before[s]
    /\ Last(after[s]).data = data

\* The level a package-level function is named after.
LevelNamed(op) ==
    CASE op \in {"Spam", "Spamf"} -> <<"s", "p", "a", "m">>
      [] op \in {"Debug", "Debugf"} -> <<"d", "e", "b", "u", "g">>
      [] op \in {"Verbose", "Verbosef"} -> <<"v", "e", "r", "b", "o", "s", "e">>
      [] op \in {"Info", "Infof"} -> <<"i", "n", "f", "o">>
      [] op \in {"Warn", "Warnf"} -> <<"w", "a", "r", "n">>
      [] op \in {"Error", "Errorf"} -> <<"e", "r", "r", "o", "r">>
      [] op \in {"Fatal", "Fatalf"} -> <<"f", "a", "t", "a", "l">>

LevelFunctions ==
    {"Spam", "Debug", "Verbose", "Info", "Warn", "Error", "Fatal",
     "Spamf", "Debugf", "Verbosef", "Infof", "Warnf", "Errorf", "Fatalf"}

\* C7: the package starts with the standard logger on standard output and the
\* error logger on standard error; StandardLogger() and ErrorLogger() return
\* those two instances; the standard logger stays at level info and the error
\* logger at level error, both with no tags, whatever is called; and a call of
\* Spam .. Fatalf changes no logger and makes one Write, of the record of its
\* message at the level it is named after, on the sink the standard logger has.
C7_PackageLoggers ==
    /\ Output(loggers, standardLogger) = Stdout
    /\ Output(loggers, errorLogger) = Stderr
    /\ [](/\ Level(loggers, standardLogger) = <<"i", "n", "f", "o">>
          /\ Level(loggers, errorLogger) = <<"e", "r", "r", "o", "r">>
          /\ Elems(arrays, loggers[standardLogger].tags) = <<>>
          /\ Elems(arrays, loggers[errorLogger].tags) = <<>>
          /\ last.op = "StandardLogger" => last.ret = standardLogger
          /\ last.op = "ErrorLogger" => last.ret = errorLogger)
    /\ [][last'.op \in LevelFunctions =>
            /\ loggers' = loggers
            /\ OneMoreWrite(sinks, sinks', Output(loggers, standardLogger),
                            Record(LevelNamed(last'.op), <<>>, Foo))]_vars

\* Fatalf has written its record to the buffer the standard logger was
\* redirected to.
C7_Witness ==
    /\ last.op = "Fatalf"
    /\ Output(loggers, standardLogger) = Buffer
    /\ Len(sinks[Buffer]) = 1
    /\ sinks[Stdout] = <<>>

\* C8: a SetOutput(s) on logger l sets l's sink to s and changes nothing else:
\* l keeps its level, tags and prefix, every other logger (those derived from l
\* before the call included) keeps all its fields, and no sink is written; a
\* Print on l makes one Write on the sink l has at that moment and none on any
\* other sink; and no step other than a SetOutput changes the sink of a logger
\* that exists.
C8_SetOutputFrame ==
    [][/\ last'.op = "SetOutput" =>
            /\ Len(loggers') = Len(loggers)
            /\ loggers'[last'.rcv] = [loggers[last'.rcv] EXCEPT !.output = last'.arg]
            /\ \A m \in Addrs \ {last'.rcv} : loggers'[m] = loggers[m]
            /\ sinks' = sinks
            /\ arrays' = arrays
       /\ last'.op = "Print" =>
            OneMoreWrite(sinks, sinks', Output(loggers, last'.rcv),
                         PrintLine(loggers[last'.rcv], last'.arg))
       /\ last'.op # "SetOutput" =>
            \A m \in Addrs : Output(loggers', m) = Output(loggers, m)]_vars

\* The standard logger was redirected to the buffer after a logger at level
\* spam was derived from a logger on standard output; a Print on the standard
\* logger then went to the buffer, and the derived logger is still on standard
\* output, which received nothing.
C8_Witness ==
    /\ last.op = "Print"
    /\ last.rcv = standardLogger
    /\ Output(loggers, standardLogger) = Buffer
    /\ Len(sinks[Buffer]) = 1
    /\ sinks[Stdout] = <<>>
    /\ \E m \in Addrs : Output(loggers, m) = Stdout /\ Level(loggers, m) = SpamLevel

RECURSIVE Lines(_)
\* The lines of a buffer: what stands between its newlines, and after the last
\* newline when bytes follow it.
Lines(p) ==
    IF p = <<>> THEN <<>>
    ELSE IF \E i \in 1..Len(p) : p[i] = NL
    THEN LET i == CHOOSE i \in 1..Len(p) : p[i] = NL /\ \A j \in 1..(i - 1) : p[j] # NL
         IN  <<SubSeq(p, 1, i - 1)>> \o Lines(SubSeq(p, i + 1, Len(p)))
    ELSE <<p>>

\* No line of p exceeds the scanner's limit: every line is shorter than the
\* scanner's buffer can grow.
Fits(p) == \A i \in 1..Len(Lines(p)) : Len(Lines(p)[i]) < MaxScanTokenSize

\* A line without the carriage return it ends with, if it ends with one.
Chomp(line) ==
    IF line # <<>> /\ Last(line) = CR THEN SubSeq(line, 1, Len(line) - 1) ELSE line

\* C5: a Write(p) in which no line exceeds the scanner's limit makes one Write
\* on the logger's sink per line of p, in the order of the lines, each of the
\* record of that line (less a final carriage return) at the logger's level and
\* with its tags, writes to no other sink, and returns len(p) and a nil error.
C5_WriteLines ==
    [][last'.op = "Write" /\ Fits(last'.arg) =>
          LET l == last'.rcv
              lines == Lines(last'.arg)
              old == sinks[Output(loggers, l)]
              now == sinks'[Output(loggers, l)]
          IN  /\ Len(now) = Len(old) + Len(lines)
              /\ SubSeq(now, 1, Len(old)) = old
              /\ \A i \in 1..Len(lines) :
                    now[Len(old) + i].data
                        = Record(Level(loggers, l), given[l], Chomp(lines[i]))
              /\ \A s \in SinkIds \ {Output(loggers, l)} : sinks'[s] = sinks[s]
              /\ last'.n = Len(last'.arg)
              /\ ~last'.err]_vars

\* Write("a\r\na") has made two Writes on the buffer, the second of the record
\* of "a", and has returned 4, nil.
C5_Witness ==
    /\ last.op = "Write"
    /\ last.arg = <<"a", CR, NL, "a">>
    /\ Len(sinks[Buffer]) = 2
    /\ sinks[Buffer][2].data = Record(DefaultLevel, <<>>, <<"a">>)
    /\ last.n = 4
    /\ ~last.err

\* C6: what a Write call adds to its sink is what the same call adds to an
\* empty sink, whatever was written before it: the sink holds what it held,
\* followed by the records of this call's buffer, so that a line given in two
\* Write calls is two records.
C6_WriteStateless ==
    [][last'.op = "Write" =>
          LET lg == loggers[last'.rcv]
              alone == LoggerWrite([s \in SinkIds |-> <<>>], lg, last'.arg, last'.kinds)
          IN  /\ sinks'[lg.output] = sinks[lg.output] \o alone.sinks[lg.output]
              /\ \A i \in 1..Len(Lines(last'.arg)) :
                    sinks'[lg.output][Len(sinks[lg.output]) + i].data
                        = Record(lg.level, given[last'.rcv], Lines(last'.arg)[i])
              /\ loggers' = loggers]_vars

\* The line "aa" was given as "a" and then "a\n" (or the buffer holds what
\* these two calls leave): the buffer holds two records of "a", none of "aa".
C6_Witness ==
    /\ last.op = "Write"
    /\ last.arg = <<"a", NL>>
    /\ Len(sinks[Buffer]) = 2
    /\ sinks[Buffer][1].data = Record(DefaultLevel, <<>>, <<"a">>)
    /\ sinks[Buffer][2].data = Record(DefaultLevel, <<>>, <<"a">>)

\* C9: a Write(p) during which a Write of the sink failed returns an error.
C9_SinkFailureSurfaced ==
    (last.op = "Write" /\ \E i \in DOMAIN last.kinds : last.kinds[i] # "ok") => last.err

\* C10: a Write(p) in which a line exceeds the scanner's limit returns 0 and an
\* error.
C10_ScanFailure ==
    (last.op = "Write" /\ ~Fits(last.arg)) => (last.n = 0 /\ last.err)

\* Write("\naaa") has written the record of its empty first line and has
\* returned 0 and an error for the second.
C10_Witness ==
    /\ last.op = "Write"
    /\ last.arg = <<NL, "a", "a", "a">>
    /\ Len(sinks[Buffer]) = 1
    /\ last.n = 0
    /\ last.err

\* The message of the last call, a Print or a Printf.
Message(call) ==
    IF call.op = "Print" THEN Concat(call.arg) ELSE Sprintf(call.arg[1], call.arg[2])

\* C11: whatever the sink answers to a Print or a Printf, and whatever it
\* answered before, the call returns its receiver, changes no logger (level,
\* tags, prefix and sink) and no slice, and makes one Write, of the whole
\* record of its own message, on the logger's sink and none on another.
C11_PrintIgnoresFailure ==
    [][last'.op \in {"Print", "Printf"} =>
          /\ last'.ret = last'.rcv
          /\ loggers' = loggers
          /\ arrays' = arrays
          /\ OneMoreWrite(sinks, sinks', Output(loggers, last'.rcv),
                          Record(Level(loggers, last'.rcv), given[last'.rcv],
                                 Message(last')))]_vars

\* Standard output refused a first record and took half of a second one: it
\* was given both whole, the second by a Print that returned its receiver.
C11_Witness ==
    /\ last.op = "Print"
    /\ last.rcv = standardLogger
    /\ last.ret = standardLogger
    /\ last.kinds = <<"short">>
    /\ Len(sinks[Stdout]) = 2
    /\ sinks[Stdout][1].err /\ sinks[Stdout][1].n = 0
    /\ sinks[Stdout][1].data = Record(InfoLevel, <<>>, Foo)
    /\ sinks[Stdout][2].err /\ sinks[Stdout][2].n < Len(sinks[Stdout][2].data)
    /\ sinks[Stdout][2].data = Record(InfoLevel, <<>>, Special)

\* The prefix the output protocol gives a level and a tag list.
Encoding(level, tags) ==
    <<ESC, "_", "k", "l", "i", "o", "_", "l", "o", "g", "_", "l", "e", "v", "e", "l", " ">>
      \o JsonString(level).out \o <<ESC, BS>>
      \o <<ESC, "_", "k", "l", "i", "o", "_", "t", "a", "g", "s", " ">>
      \o <<"[">> \o JoinComma([i \in 1..Len(tags) |-> JsonString(tags[i]).out]) \o <<"]">>
      \o <<ESC, BS>>

\* C12: the prefix every logger holds is the encoding of the level it has and
\* of the tags its Tags() returns, whatever was called and whatever the caller
\* wrote to the slices it holds.
C12_PrefixConsistent ==
    \A l \in Addrs :
        loggers[l].linePrefix = Encoding(Level(loggers, l), Elems(arrays, loggers[l].tags))

\* What l.Tags() returns: the elements of a slice that is not nil.
TagsReturned(ls, arrs, l) ==
    LET r == Tags(ls, arrs, l)
    IN  [elems |-> Elems(r.arrays, r.ref), isNil |-> r.ref = NilSlice]

\* C13: the logger WithLevel(x) returns has level x, and the tags and the sink
\* of the receiver; the logger WithTags(t...) returns has the tags t, in order,
\* its Tags() being an empty slice and not nil when t is empty, and the level
\* and the sink of the receiver; and the prefix of every logger, hence every
\* record it prints, is the encoding of the last level and of the last tag list
\* given on the way to it.
C13_DerivedLogger ==
    /\ [](\A l \in Addrs : loggers[l].linePrefix = Encoding(Level(loggers, l), given[l]))
    /\ [][/\ last'.op = "WithLevel" =>
                /\ last'.ret = Len(loggers) + 1
                /\ Level(loggers', last'.ret) = last'.arg
                /\ TagsReturned(loggers', arrays', last'.ret)
                      = TagsReturned(loggers, arrays, last'.rcv)
                /\ Output(loggers', last'.ret) = Output(loggers, last'.rcv)
          /\ last'.op = "WithTags" =>
                /\ last'.ret = Len(loggers) + 1
                /\ TagsReturned(loggers', arrays', last'.ret)
                      = [elems |-> last'.arg, isNil |-> FALSE]
                /\ Level(loggers', last'.ret) = Level(loggers, last'.rcv)
                /\ Output(loggers', last'.ret) = Output(loggers, last'.rcv)]_vars

\* The records of the lines of a buffer, in the order of the lines, as the
\* logger at address l prints them.
LineRecords(l, lines) ==
    [i \in 1..Len(lines) |-> Record(Level(loggers, l), given[l], Chomp(lines[i]))]

\* What the Writes a sink received were given, in the order it received them.
Given(log) == [i \in 1..Len(log) |-> log[i].data]

\* C14 as stated: a Print makes one Write on the sink, of the whole record,
\* after the Writes the sink has received; a Write(p) makes one Write of a
\* record per line of p, in the order of the lines, after them too.
C14_OneWritePerLine ==
    [][/\ last'.op = "Print" =>
            OneMoreWrite(sinks, sinks', Output(loggers, last'.rcv),
                         Record(Level(loggers, last'.rcv), given[last'.rcv],
                                Concat(last'.arg)))
       /\ last'.op = "Write" =>
            Given(sinks'[Output(loggers, last'.rcv)])
                = Given(sinks[Output(loggers, last'.rcv)])
                    \o LineRecords(last'.rcv, Lines(last'.arg))]_vars

\* C14, for the buffers the scanner reads to their end: a Print makes one Write
\* on the sink, of the whole record, after the Writes the sink has received; a
\* Write(p) in which no line exceeds the scanner's limit makes one Write of a
\* record per line of p, in the order of the lines, after them too; and no
\* step removes or reorders what a sink has received.
C14_OneWritePerScannedLine ==
    [][/\ last'.op = "Print" =>
            OneMoreWrite(sinks, sinks', Output(loggers, last'.rcv),
                         Record(Level(loggers, last'.rcv), given[last'.rcv],
                                Concat(last'.arg)))
       /\ (last'.op = "Write" /\ Fits(last'.arg)) =>
            Given(sinks'[Output(loggers, last'.rcv)])
                = Given(sinks[Output(loggers, last'.rcv)])
                    \o LineRecords(last'.rcv, Lines(last'.arg))
       /\ \A s \in SinkIds :
            /\ Len(sinks'[s]) >= Len(sinks[s])
            /\ SubSeq(sinks'[s], 1, Len(sinks[s])) = sinks[s]]_vars

\* The buffer received the record of "foo" from a Print and then, from
\* Write("a\nb"), the record of "a" and the record of "b".
C14_Witness ==
    /\ last.op = "Write"
    /\ last.arg = <<"a", NL, "b">>
    /\ Given(sinks[Buffer]) = <<Record(InfoLevel, <<>>, Foo),
                                Record(InfoLevel, <<>>, <<"a">>),
                                Record(InfoLevel, <<>>, <<"b">>)>>

RECURSIVE JsonShape(_, _)
\* The bytes b are JSON strings, each between two quotes, with brackets and
\* commas around them: between the quotes of a string there is no ESC, every
\* backslash opens an escape and every quote follows such a backslash.  inside
\* tells whether b starts between the quotes of a string.
JsonShape(b, inside) ==
    IF b = <<>> THEN ~inside
    ELSE IF ~inside
    THEN /\ Head(b) \in {QUOTE, "[", "]", ","}
         /\ JsonShape(Tail(b), Head(b) = QUOTE)
    ELSE IF Head(b) = BS
    THEN /\ Len(b) >= 2
         /\ b[2] \in {QUOTE, BS, "n", "r", "t", "u"}
         /\ JsonShape(SubSeq(b, 3, Len(b)), TRUE)
    ELSE /\ Head(b) # ESC
         /\ JsonShape(Tail(b), Head(b) # QUOTE)

\* The places of the ESC byte in p.
EscAt(p) == {i \in 1..Len(p) : p[i] = ESC}

\* The two payloads of a prefix that has the ESC byte at four places.
Payloads(p) ==
    LET e2 == CHOOSE i \in EscAt(p) : Cardinality({j \in EscAt(p) : j < i}) = 1
        e3 == CHOOSE i \in EscAt(p) : Cardinality({j \in EscAt(p) : j < i}) = 2
        e4 == CHOOSE i \in EscAt(p) : Cardinality({j \in EscAt(p) : j < i}) = 3
    IN  [level |-> SubSeq(p, Len(LevelIntro) + 1, e2 - 1),
         tags |-> SubSeq(p, e3 + Len(TagsIntro), e4 - 1),
         framed |-> /\ SubSeq(p, 1, Len(LevelIntro)) = LevelIntro
                    /\ SubSeq(p, e2, e2 + 1) = Terminator
                    /\ e3 = e2 + 2
                    /\ SubSeq(p, e3, e3 + Len(TagsIntro) - 1) = TagsIntro
                    /\ e4 = Len(p) - 1
                    /\ SubSeq(p, e4, Len(p)) = Terminator]

\* C15: the prefix of every logger has the ESC byte at four places only, the
\* start of the two introducers and of the two terminators; what stands
\* between an introducer and its terminator is made of JSON strings with no
\* ESC, no quote and no backslash that is not escaped; and the tag list of the
\* one tag ESC '\' is rendered ["\u001b\\"].
C15_Framing ==
    \A l \in Addrs :
        LET p == loggers[l].linePrefix
        IN  /\ Cardinality(EscAt(p)) = 4
            /\ LET parts == Payloads(p)
               IN  /\ parts.framed
                   /\ JsonShape(parts.level, FALSE)
                   /\ JsonShape(parts.tags, FALSE)
                   /\ given[l] = <<<<ESC, BS>>>> =>
                         parts.tags
                           = <<"[", QUOTE, BS, "u", "0", "0", "1", "b", BS, BS, QUOTE, "]">>

\* A logger whose level is ESC '\' and whose one tag is ESC '\' has printed.
C15_Witness ==
    /\ last.op = "Print"
    /\ Level(loggers, last.rcv) = <<ESC, BS>>
    /\ given[last.rcv] = <<<<ESC, BS>>>>
    /\ Len(sinks[Buffer]) = 1

\* The number of lines of p that come before its first line of
\* MaxScanTokenSize bytes or more.
Scanned(p) ==
    LET long == {i \in 1..Len(Lines(p)) : Len(Lines(p)[i]) >= MaxScanTokenSize}
    IN  IF long = {} THEN Len(Lines(p))
        ELSE (CHOOSE i \in long : \A j \in long : i <= j) - 1

\* C16: a Write(p) in which a line exceeds the scanner's limit has made, after
\* the Writes its sink had received, one Write of a record for each line that
\* comes before the first such line, in order, and none for that line or for a
\* line after it, and returns 0 and an error.
C16_PartialWrite ==
    [][(last'.op = "Write" /\ ~Fits(last'.arg)) =>
          /\ Given(sinks'[Output(loggers, last'.rcv)])
                = Given(sinks[Output(loggers, last'.rcv)])
                    \o LineRecords(last'.rcv,
                                   SubSeq(Lines(last'.arg), 1, Scanned(last'.arg)))
          /\ last'.n = 0
          /\ last'.err]_vars

\* Write("a\r\nb\n" followed by a line that is too long) has left the records
\* of "a" and of "b" on the buffer and has returned 0 and an error.
C16_Witness ==
    /\ last.op = "Write"
    /\ last.arg = <<"a", CR, NL, "b", NL>> \o LongLine
    /\ last.n = 0
    /\ last.err
    /\ Given(sinks[Buffer]) = <<Record(InfoLevel, <<>>, <<"a">>),
                                Record(InfoLevel, <<>>, <<"b">>)>>

====
